---- MODULE Spec2Model ----
(***************************************************************************)
(* State-machine model of the kontra-trading bot: the gRPC subscriber      *)
(* (GrpcListeners, src/index.ts:362-520), the new_swap classification      *)
(* handler of runListener (src/index.ts:184-321) and the sell retry loop   *)
(* of Bot (src/bot.ts:265-438).                                            *)
(*                                                                         *)
(* Every async function is cut at its awaits: one action per segment that  *)
(* runs between two awaits.  Node responses (RPC results, stream records)  *)
(* are inputs drawn from the small tables below.                           *)
(***************************************************************************)
EXTENDS Integers, Sequences, FiniteSets, TLC

\* ------------------------------------------------------------------ bounds

\* Number of new_swap handler invocations (orders) the model follows.
MaxFlows == 2

\* Number of start() calls the subscriber harness makes (SpecSubscriber).
MaxStarts == 2

\* ------------------------------------------------- configuration constants

\* MAX_SELL_RETRIES (helpers/constants.ts:44), the loop bound of Bot.sell.
MAX_SELL_RETRIES == 3

\* MINIMUM_BUY_TRIGGER (helpers/constants.ts:49) is a number of SOL; the model
\* holds it in thousandths of a SOL: 50 is 0.05 SOL.
MINIMUM_BUY_TRIGGER == 50

\* Sell tiers, percentages (helpers/constants.ts:50-52).
AVG_SELL_AMOUNT == 50
HIGH_SELL_AMOUNT == 75
LOW_SELL_AMOUNT == 25

\* Decimals of the tracked token, as reported with the wallet balance.
TokenDecimals == 2

\* ------------------------------------------------------------- addresses

wsolMint == "So11111111111111111111111111111111111111112"
TOKEN_ACCOUNT == "TokenA"
jupiterProgramId == "JUP6LkbZbjS1jKKwapdHNy74zcZ3tLUZoi5QNyVTaV4"
RAYDIUM_PUBLIC_KEY == "675kPX9MHTjS2zt1qfr1NYHuzeLXfQM9H24wFSUt1Mp8"

\* --------------------------------------------------------- text helpers

\* A line of blacklist.txt is a sequence of one-character strings.
RECURSIVE TrimStart(_)
TrimStart(line) ==
    IF line # <<>> /\ Head(line) = " " THEN TrimStart(Tail(line)) ELSE line

RECURSIVE TrimEnd(_)
TrimEnd(line) ==
    IF line # <<>> /\ line[Len(line)] = " "
    THEN TrimEnd(SubSeq(line, 1, Len(line) - 1))
    ELSE line

\* String.prototype.trim
Trim(line) == TrimEnd(TrimStart(line))

\* blacklist.txt as read by fs.readFileSync and split on newlines; the file of
\* the model lists Mallory (padded with blanks), an empty line and Eve.
BlacklistFile ==
    [readable |-> TRUE,
     lines |-> << <<" ", "M", "a", "l", " ">>, <<>>, <<" ", " ">>, <<"E", "v", "e">> >>]

\* loadBlacklist: trimmed non-empty lines as a set; the empty set when the
\* file cannot be read.
loadBlacklist(file) ==
    IF ~file.readable THEN {}
    ELSE {Trim(file.lines[k]) : k \in {j \in 1..Len(file.lines) : Trim(file.lines[j]) # <<>>}}

\* const blacklist = loadBlacklist()
blacklist == loadBlacklist(BlacklistFile)

\* Wallet addresses (base58 strings) that sign the observed swaps.
Alice == <<"A", "l", "i">>
Mallory == <<"M", "a", "l">>

\* ------------------------------------------------------ number helpers

\* A decimal string (uiTokenAmount.amount) as a sequence of digits.
RECURSIVE ToDigits(_)
ToDigits(n) == IF n < 10 THEN <<n>> ELSE Append(ToDigits(n \div 10), n % 10)

\* parseFloat on a string of decimal digits.
RECURSIVE parseFloat(_)
parseFloat(digits) ==
    IF digits = <<>> THEN 0
    ELSE 10 * parseFloat(SubSeq(digits, 1, Len(digits) - 1)) + digits[Len(digits)]

RECURSIVE Pow10(_)
Pow10(k) == IF k = 0 THEN 1 ELSE 10 * Pow10(k - 1)

\* `x || 0` on a uiAmount: <<>> is null, <<n>> the number n.
OrZero(ui) == IF ui = <<>> THEN 0 ELSE ui[1]

\* ------------------------------------------- parsed transactions (RPC)

\* One entry of meta.preTokenBalances / meta.postTokenBalances.  uiAmount is
\* <<>> for null and <<n>> for n whole tokens; amount is the raw decimal string.
Bal(idx, mint, ui, raw) ==
    [accountIndex |-> idx, mint |-> mint, uiAmount |-> ui, amount |-> ToDigits(raw)]

\* A present / an absent (undefined) balance list.
Some(list) == [defined |-> TRUE, list |-> list]
Undefined == [defined |-> FALSE, list |-> <<>>]

ParsedTx(buyer, keys, pre, post) ==
    [buyer |-> buyer, keys |-> keys, pre |-> pre, post |-> post]

\* A balance list with one token account holding a (ui) tokens and one WSOL
\* account holding x lamports.
Balances(a, x) ==
    Some(<< Bal(1, TOKEN_ACCOUNT, a, Pow10(TokenDecimals) * OrZero(a)), Bal(2, wsolMint, <<>>, x) >>)

\* The transactions connection.getParsedTransaction can return.
ParsedTxs ==
    << \* 1: direct BUY of 0.2 SOL (token balance 1000 -> 900)
       ParsedTx(Alice, {RAYDIUM_PUBLIC_KEY},
                Balances(<<1000>>, 1000000000), Balances(<<900>>, 1200000000)),
       \* 2: direct BUY of 0.01 SOL, below the trigger
       ParsedTx(Alice, {RAYDIUM_PUBLIC_KEY},
                Balances(<<1000>>, 1000000000), Balances(<<900>>, 1010000000)),
       \* 3: direct BUY of exactly the trigger, 0.05 SOL
       ParsedTx(Alice, {RAYDIUM_PUBLIC_KEY},
                Balances(<<1000>>, 1000000000), Balances(<<900>>, 1050000000)),
       \* 4: routed BUY of 0.2 SOL (token balance null -> 100)
       ParsedTx(Alice, {RAYDIUM_PUBLIC_KEY, jupiterProgramId},
                Balances(<<>>, 1000000000), Balances(<<100>>, 1200000000)),
       \* 5: routed BUY of 0.01 SOL, below the trigger
       ParsedTx(Alice, {RAYDIUM_PUBLIC_KEY, jupiterProgramId},
                Balances(<<>>, 1000000000), Balances(<<100>>, 1010000000)),
       \* 6: direct BUY of 0.2 SOL signed by a blacklisted wallet
       ParsedTx(Mallory, {RAYDIUM_PUBLIC_KEY},
                Balances(<<1000>>, 1000000000), Balances(<<900>>, 1200000000)),
       \* 7: routed BUY of 0.2 SOL signed by a blacklisted wallet
       ParsedTx(Mallory, {RAYDIUM_PUBLIC_KEY, jupiterProgramId},
                Balances(<<>>, 1000000000), Balances(<<100>>, 1200000000)),
       \* 8: meta.preTokenBalances missing
       ParsedTx(Alice, {RAYDIUM_PUBLIC_KEY},
                Undefined, Balances(<<900>>, 1200000000)),
       \* 9: no post balance entry for the tracked token
       ParsedTx(Alice, {RAYDIUM_PUBLIC_KEY},
                Balances(<<1000>>, 1000000000), Some(<< Bal(2, wsolMint, <<>>, 1200000000) >>)),
       \* 10: direct swap the other way (token balance 900 -> 1000)
       ParsedTx(Alice, {RAYDIUM_PUBLIC_KEY},
                Balances(<<900>>, 1200000000), Balances(<<1000>>, 1000000000)),
       \* 11: routed swap in which the token balance falls (100 -> null)
       ParsedTx(Alice, {RAYDIUM_PUBLIC_KEY, jupiterProgramId},
                Balances(<<100>>, 1000000000), Balances(<<>>, 1200000000)),
       \* 12: direct, the token balance falls (1000 -> 900) and so does the WSOL
       \* balance (by 0.2 SOL)
       ParsedTx(Alice, {RAYDIUM_PUBLIC_KEY},
                Balances(<<1000>>, 1200000000), Balances(<<900>>, 1000000000)),
       \* 13: direct, the token balance rises (900 -> 1000) and so does the WSOL
       \* balance (by 0.2 SOL)
       ParsedTx(Alice, {RAYDIUM_PUBLIC_KEY},
                Balances(<<900>>, 1000000000), Balances(<<1000>>, 1200000000)),
       \* 14: routed BUY of exactly the trigger, 0.05 SOL
       ParsedTx(Alice, {RAYDIUM_PUBLIC_KEY, jupiterProgramId},
                Balances(<<>>, 1000000000), Balances(<<100>>, 1050000000)),
       \* 15: direct swap of 0.2 SOL in which a token account of the tracked
       \* mint is created: account 3 has a post entry only (900), account 5 holds
       \* 1000 before and 800 after
       ParsedTx(Alice, {RAYDIUM_PUBLIC_KEY},
                Some(<< Bal(5, TOKEN_ACCOUNT, <<1000>>, Pow10(TokenDecimals) * 1000),
                        Bal(6, wsolMint, <<>>, 1000000000) >>),
                Some(<< Bal(3, TOKEN_ACCOUNT, <<900>>, Pow10(TokenDecimals) * 900),
                        Bal(5, TOKEN_ACCOUNT, <<800>>, Pow10(TokenDecimals) * 800),
                        Bal(6, wsolMint, <<>>, 1200000000) >>)) >>

\* Array.prototype.find(balance => balance.mint === mint): the first entry of
\* that mint, as a sequence of length 0 (undefined) or 1.
RECURSIVE find(_, _)
find(list, mint) ==
    IF list = <<>> THEN <<>>
    ELSE IF Head(list).mint = mint THEN <<Head(list)>>
    ELSE find(Tail(list), mint)

\* const minimumBuyTriggerLamports = MINIMUM_BUY_TRIGGER * 1e9
minimumBuyTriggerLamports == MINIMUM_BUY_TRIGGER * 1000000

\* The quote and token deltas the handler computes from the entries it found.
buySwapAmountLamports(tx) ==
    parseFloat(find(tx.post.list, wsolMint)[1].amount)
        - parseFloat(find(tx.pre.list, wsolMint)[1].amount)

preTokenAAmount(tx) == OrZero(find(tx.pre.list, TOKEN_ACCOUNT)[1].uiAmount)
postTokenAAmount(tx) == OrZero(find(tx.post.list, TOKEN_ACCOUNT)[1].uiAmount)

Verdict(v, amount) == [verdict |-> v, amount |-> amount]

\* Mutant of ClassifyJupiter: the direction test is the direct branch's (a
\* fall of the token balance).
ClassifyJupiter_NotInverted(tx) ==
    IF postTokenAAmount(tx) < preTokenAAmount(tx)
    THEN IF buySwapAmountLamports(tx) <= minimumBuyTriggerLamports
         THEN Verdict("belowMin", 0)
         ELSE Verdict("sell", preTokenAAmount(tx) - postTokenAAmount(tx))
    ELSE Verdict("notBuy", 0)

\* Mutant of ClassifyJupiter: the aggregator branch lacks the trigger test.
ClassifyJupiter_NoTrigger(tx) ==
    IF postTokenAAmount(tx) > preTokenAAmount(tx)
    THEN Verdict("sell", postTokenAAmount(tx) - preTokenAAmount(tx))
    ELSE Verdict("notBuy", 0)

\* The aggregator branch of the handler (index.ts:276-293).
ClassifyJupiter(tx) ==
    IF postTokenAAmount(tx) > preTokenAAmount(tx)
    THEN IF buySwapAmountLamports(tx) <= minimumBuyTriggerLamports
         THEN Verdict("belowMin", 0)
         ELSE Verdict("sell", postTokenAAmount(tx) - preTokenAAmount(tx))
    ELSE Verdict("notBuy", 0)

\* Mutant of ClassifyDirect: the trigger test lets a delta equal to the
\* trigger pass.
ClassifyDirect_NonStrict(tx) ==
    IF postTokenAAmount(tx) < preTokenAAmount(tx)
    THEN IF buySwapAmountLamports(tx) < minimumBuyTriggerLamports
         THEN Verdict("belowMin", 0)
         ELSE Verdict("sell", preTokenAAmount(tx) - postTokenAAmount(tx))
    ELSE Verdict("notBuy", 0)

\* Mutant of ClassifyDirect: the direction of the token delta is not tested.
ClassifyDirect_AnyDirection(tx) ==
    IF buySwapAmountLamports(tx) <= minimumBuyTriggerLamports
    THEN Verdict("belowMin", 0)
    ELSE Verdict("sell", IF postTokenAAmount(tx) < preTokenAAmount(tx)
                         THEN preTokenAAmount(tx) - postTokenAAmount(tx)
                         ELSE postTokenAAmount(tx) - preTokenAAmount(tx))

\* Mutant of ClassifyDirect: the direction test is the aggregator branch's
\* (a rise of the token balance).
ClassifyDirect_TokenRise(tx) ==
    IF postTokenAAmount(tx) > preTokenAAmount(tx)
    THEN IF buySwapAmountLamports(tx) <= minimumBuyTriggerLamports
         THEN Verdict("belowMin", 0)
         ELSE Verdict("sell", postTokenAAmount(tx) - preTokenAAmount(tx))
    ELSE Verdict("notBuy", 0)

\* The direct branch of the handler (index.ts:294-310).
ClassifyDirect(tx) ==
    IF postTokenAAmount(tx) < preTokenAAmount(tx)
    THEN IF buySwapAmountLamports(tx) <= minimumBuyTriggerLamports
         THEN Verdict("belowMin", 0)
         ELSE Verdict("sell", preTokenAAmount(tx) - postTokenAAmount(tx))
    ELSE Verdict("notBuy", 0)

\* Mutant of IsBlacklisted: the buyer is looked up among the untrimmed lines
\* of the file.
IsBlacklisted_Untrimmed(tx) ==
    tx.buyer \in {BlacklistFile.lines[k] : k \in 1..Len(BlacklistFile.lines)}

\* if (blacklist.has(buyerPublicKey)) return;
IsBlacklisted(tx) == tx.buyer \in blacklist

\* Mutant of Classify: only the quote asset's entries are required; a missing
\* entry of the tracked asset counts as a balance of 0.
Classify_TokenEntryOptional(tx) ==
    IF IsBlacklisted(tx) THEN Verdict("blacklisted", 0)
    ELSE IF ~tx.pre.defined \/ ~tx.post.defined THEN Verdict("missingInfo", 0)
    ELSE IF \/ find(tx.pre.list, wsolMint) = <<>>
            \/ find(tx.post.list, wsolMint) = <<>>
         THEN Verdict("noMatch", 0)
    ELSE LET pre == IF find(tx.pre.list, TOKEN_ACCOUNT) = <<>> THEN 0 ELSE preTokenAAmount(tx)
             post == IF find(tx.post.list, TOKEN_ACCOUNT) = <<>> THEN 0 ELSE postTokenAAmount(tx)
             routed == jupiterProgramId \in tx.keys
         IN  IF (routed /\ post > pre) \/ (~routed /\ post < pre)
             THEN IF buySwapAmountLamports(tx) <= minimumBuyTriggerLamports
                  THEN Verdict("belowMin", 0)
                  ELSE Verdict("sell", IF routed THEN post - pre ELSE pre - post)
             ELSE Verdict("notBuy", 0)

\* The new_swap handler after getParsedTransaction returned the transaction tx
\* (index.ts:233-315): the verdict and, for "sell", the amount given to bot.sell.
Classify(tx) ==
    IF IsBlacklisted(tx) THEN Verdict("blacklisted", 0)
    ELSE IF ~tx.pre.defined \/ ~tx.post.defined THEN Verdict("missingInfo", 0)
    ELSE IF \/ find(tx.pre.list, wsolMint) = <<>>
            \/ find(tx.pre.list, TOKEN_ACCOUNT) = <<>>
            \/ find(tx.post.list, wsolMint) = <<>>
            \/ find(tx.post.list, TOKEN_ACCOUNT) = <<>>
         THEN Verdict("noMatch", 0)
    ELSE IF jupiterProgramId \in tx.keys THEN ClassifyJupiter(tx)
    ELSE ClassifyDirect(tx)

\* ------------------------------------------------ stream records (gRPC)

\* A flattened instruction: the program it is addressed to and the
\* discriminator its data starts with, written as the variant it codes.
Ix(programId, discriminator) == [programId |-> programId, discriminator |-> discriminator]

\* A record of the subscription: whether it carries a transaction, whether the
\* formatter can rebuild it, meta.err, its flattened instructions and the
\* mints of meta.preTokenBalances.
Record(transaction, wellFormed, err, ixs, preMints) ==
    [transaction |-> transaction, wellFormed |-> wellFormed, err |-> err,
     ixs |-> ixs, preMints |-> preMints]

StreamRecords ==
    << \* 1: a ping, no transaction
       Record(FALSE, TRUE, FALSE, <<>>, <<>>),
       \* 2: a payload TXN_FORMATTER.formTransactionFromJson throws on
       Record(TRUE, FALSE, FALSE, <<>>, <<>>),
       \* 3: a swap the ledger flagged as failed
       Record(TRUE, TRUE, TRUE, <<Ix(RAYDIUM_PUBLIC_KEY, "swapIn")>>, <<wsolMint, TOKEN_ACCOUNT>>),
       \* 4: no instruction of the exchange program
       Record(TRUE, TRUE, FALSE, <<Ix("ComputeBudget", "setLimit")>>, <<wsolMint, TOKEN_ACCOUNT>>),
       \* 5: exchange instructions of other variants only
       Record(TRUE, TRUE, FALSE,
              <<Ix(RAYDIUM_PUBLIC_KEY, "deposit"), Ix(RAYDIUM_PUBLIC_KEY, "noSuchVariant")>>,
              <<wsolMint, TOKEN_ACCOUNT>>),
       \* 6: a swap
       Record(TRUE, TRUE, FALSE,
              <<Ix("ComputeBudget", "setLimit"), Ix(RAYDIUM_PUBLIC_KEY, "swapIn")>>,
              <<wsolMint, TOKEN_ACCOUNT>>),
       \* 7: a swap whose pre balances name no token but WSOL
       Record(TRUE, TRUE, FALSE, <<Ix(RAYDIUM_PUBLIC_KEY, "swapOut")>>, <<wsolMint>>) >>

\* The variants the exchange program's instruction layout knows; "deposit"
\* stands for those that are no swap.
KnownVariants == {"deposit", "swapIn", "swapOut"}

\* RAYDIUM_PARSER.parseInstruction: the layout is picked by the discriminator;
\* an instruction of no known variant decodes to the name "unknown".
parseInstruction(ix) ==
    [name |-> IF ix.discriminator \in KnownVariants THEN ix.discriminator ELSE "unknown"]

\* raydiumIxs.map((ix) => RAYDIUM_PARSER.parseInstruction(ix)), the names kept.
RECURSIVE MapName(_)
MapName(ixs) ==
    IF ixs = <<>> THEN <<>> ELSE <<parseInstruction(Head(ixs)).name>> \o MapName(Tail(ixs))

IsRaydiumIx(ix) == ix.programId = RAYDIUM_PUBLIC_KEY

\* Mutant of decodeRaydiumTxn: meta.err is not looked at.
decodeRaydiumTxn_IgnoresErr(tx) == Some(MapName(SelectSeq(tx.ixs, IsRaydiumIx)))

\* decodeRaydiumTxn: undefined for a failed transaction, else the decoded
\* instructions of the exchange program.
decodeRaydiumTxn(tx) ==
    IF tx.err THEN Undefined
    ELSE Some(MapName(SelectSeq(tx.ixs, IsRaydiumIx)))

\* Mutant of IsSwapName: every decoded variant but "unknown" counts.
IsSwapName_AnyKnown(name) == name # "unknown"

\* decodedRaydiumIx.name === "swapIn" || decodedRaydiumIx.name === "swapOut"
IsSwapName(name) == name \in {"swapIn", "swapOut"}

IsNotWsol(mint) == mint # wsolMint

\* getMintToken throws (filter[0] is undefined) when no pre balance entry is
\* of another mint than WSOL.
getMintTokenThrows(chunk) == SelectSeq(chunk.preMints, IsNotWsol) = <<>>

Outcome(result, surfaced) == [result |-> result, surfaced |-> surfaced]

\* handlePoolStreamData: what becomes of one record, and how many decoded
\* instructions were surfaced on the way.
handlePoolStreamData(chunk) ==
    IF ~chunk.transaction THEN Outcome("ignored", 0)
    ELSE IF ~chunk.wellFormed THEN Outcome("threw", 0)
    ELSE LET decodedRaydiumIxs == decodeRaydiumTxn(chunk) IN
         IF ~decodedRaydiumIxs.defined \/ Len(decodedRaydiumIxs.list) = 0
         THEN Outcome("dropped", Len(decodedRaydiumIxs.list))
         ELSE IF SelectSeq(decodedRaydiumIxs.list, IsSwapName) = <<>>
         THEN Outcome("noSwap", Len(decodedRaydiumIxs.list))
         ELSE IF getMintTokenThrows(chunk)
         THEN Outcome("threw", Len(decodedRaydiumIxs.list))
         ELSE Outcome("emitted", Len(decodedRaydiumIxs.list))

\* ------------------------------------------------------------- state

VARIABLES
    alive,               \* the Node process has not been terminated
    main,                \* position of runListener
    start,               \* position of the start() call in progress
    accountStream,       \* GrpcListeners.accountStream
    streams,             \* the streams client.subscribe() has returned
    poolState,           \* the pool keys runListener fetched
    oneTokenAtATime,     \* BotConfig.oneTokenAtATime
    sellExecutionCount,  \* Bot.sellExecutionCount
    flow,                \* the new_swap handler invocations
    lastRec,             \* the record handled last, and what became of it
    lastStop,            \* the stop() call made last (tick flips at every call)
                         \* and the orders that were attempting when it was made
    stopRaised,          \* a stop() call threw to its caller
    env,                 \* process.env, for the variables constants.ts reads
    exitCode,            \* the code process.exit was called with, <<>> if it was not
    swapCall             \* one call of Bot.swap taken alone: its inputs and its transaction

vars ==
    <<alive, main, start, accountStream, streams, poolState, oneTokenAtATime,
      sellExecutionCount, flow, lastRec, lastStop, stopRaised, env, exitCode,
      swapCall>>

Flows == 1..MaxFlows

\* accountStream: undefined (never assigned), null, or the stream of an id.
StreamUndefined == [ref |-> "undefined", id |-> 0]
StreamNull == [ref |-> "null", id |-> 0]
StreamRef(id) == [ref |-> "stream", id |-> id]

IdleFlow ==
    [pc |-> "idle", tx |-> 0, amount |-> 0, balance |-> <<>>, amountIn |-> 0,
     i |-> 0, attempts |-> 0, confirmed |-> FALSE, exit |-> "none",
     minOutAttempt |-> 0, blockhashAttempt |-> 0, selectedSellPercentage |-> 0,
     broadcasts |-> 0, sendOptions |-> <<>>, confirms |-> 0, confirmKey |-> <<>>,
     caught |-> "none", confirmation |-> <<>>, result |-> <<>>, sentAmountIn |-> 0]

\* The variables constants.ts reads with retrieveEnvVariable: the first, one
\* of the middle and the last of them stand for all.
RequiredVariables == <<"PRIVATE_KEY", "GRPC_ENDPOINT", "LOW_SELL_AMOUNT">>

\* process.env[name]: undefined (<<>>), the empty string or a value.
EnvValues == {<<>>, <<"">>, <<"value">>}

\* No call of Bot.swap is looked at alone.
NoSwapCall ==
    [state |-> "none", isJito |-> FALSE, direction |-> "sell", amountIn |-> 0,
     minAmountOut |-> 0, blockhash |-> "none", instructions |-> <<>>,
     recentBlockhash |-> "none"]

\* The program before constants.ts is evaluated.
InitState ==
    /\ alive = TRUE
    /\ main = "load"
    /\ env \in [{RequiredVariables[k] : k \in 1..Len(RequiredVariables)} -> EnvValues]
    /\ exitCode = <<>>
    /\ start = "idle"
    /\ accountStream = StreamUndefined
    /\ streams = <<>>
    /\ poolState = "unset"
    /\ oneTokenAtATime \in BOOLEAN
    /\ sellExecutionCount = 0
    /\ flow = [f \in Flows |-> IdleFlow]
    /\ lastRec = [rec |-> 0, result |-> "none", surfaced |-> 0, delivered |-> FALSE]
    /\ lastStop = [tick |-> FALSE, name |-> "none", before |-> "none", attempting |-> {}]
    /\ stopRaised = FALSE

Init == InitState /\ swapCall = NoSwapCall

\* ------------------------------------------------- GrpcListeners

\* A stream as client.subscribe() returns it, after subscribeToRaydiumPools
\* attached its 'data' and 'error' handlers; the node sends records once the
\* subscription request has been written (requested), until the transport
\* fails (errored).
NewStream == [ended |-> FALSE, listeners |-> TRUE, requested |-> FALSE, errored |-> FALSE]

\* start() -> subscribeToRaydiumPools, up to `await this.client.subscribe()`.
StartCall ==
    /\ start \in {"idle", "resolved", "rejected"}
    /\ start' = "subscribing"

\* client.subscribe() resolved: accountStream is assigned, the handlers are
\* attached and the request is written; or it rejected and start() rejects.
StartSubscribed ==
    /\ alive
    /\ start = "subscribing"
    /\ \/ /\ streams' = Append(streams, NewStream)
          /\ accountStream' = StreamRef(Len(streams) + 1)
          /\ start' = "sending"
       \/ /\ start' = "rejected"
          /\ UNCHANGED <<env, exitCode, swapCall, streams, accountStream>>
    /\ UNCHANGED <<env, exitCode, swapCall, alive, main, poolState, oneTokenAtATime, sellExecutionCount,
                   flow, lastRec, lastStop, stopRaised>>

\* sendRequest: the write callback reports success or an error.
StartSent ==
    /\ alive
    /\ start = "sending"
    /\ \/ /\ start' = "resolved"
          /\ streams' = [streams EXCEPT ![Len(streams)].requested = TRUE]
       \/ /\ start' = "rejected"
          /\ streams' = streams
    /\ UNCHANGED <<env, exitCode, swapCall, alive, main, accountStream, poolState, oneTokenAtATime,
                   sellExecutionCount, flow, lastRec, lastStop, stopRaised>>

\* stopStream: stream.end() then stream.removeAllListeners(), both inside one
\* try; endThrows says that end() threw (the listeners are then kept).
stopStream(stream, endThrows) ==
    IF endThrows THEN stream
    ELSE [stream EXCEPT !.ended = TRUE, !.listeners = FALSE]

\* Mutant of StopResult: `this.accountStream` is not tested, so stopStream is
\* given undefined or null (its try block swallows the TypeError) and the
\* field is overwritten with null.
StopResult_NoStreamTest(name, endThrows) ==
    IF name = "accountStream"
    THEN [accountStream |-> StreamNull,
          streams |-> IF accountStream.ref = "stream"
                      THEN [streams EXCEPT ![accountStream.id] = stopStream(@, endThrows)]
                      ELSE streams,
          raised |-> FALSE]
    ELSE [accountStream |-> accountStream, streams |-> streams, raised |-> FALSE]

\* stop(name): the subscriber's fields after the call, and whether the call
\* threw to its caller.  stopStream has no await of its own, so between it and
\* the assignment of null only microtasks could run; the call is one step.
StopResult(name, endThrows) ==
    IF name = "accountStream" /\ accountStream.ref = "stream"
    THEN [accountStream |-> StreamNull,
          streams |-> [streams EXCEPT ![accountStream.id] = stopStream(@, endThrows)],
          raised |-> FALSE]
    ELSE [accountStream |-> accountStream, streams |-> streams, raised |-> FALSE]

\* The invocations that are inside the attempt loop of Bot.sell.
Attempting == {f \in Flows : flow[f].pc \in {"fetchInfo", "blockhash", "send", "confirm"}}

\* Mutant of Stop: stopping the subscriber also abandons the orders in flight.
Stop_CancelsOrders ==
    /\ alive
    /\ \E name \in {"accountStream", "walletStream"}, endThrows \in BOOLEAN :
         LET r == StopResult(name, endThrows) IN
         /\ accountStream' = r.accountStream
         /\ streams' = r.streams
         /\ stopRaised' = (stopRaised \/ r.raised)
         /\ lastStop' = [tick |-> ~lastStop.tick, name |-> name, before |-> accountStream.ref,
                          attempting |-> Attempting]
    /\ flow' = [f \in DOMAIN flow |->
                  IF flow[f].pc \in {"fetchInfo", "blockhash", "send", "confirm"}
                  THEN [flow[f] EXCEPT !.pc = "done", !.exit = "exhausted"]
                  ELSE flow[f]]
    /\ UNCHANGED <<env, exitCode, swapCall, alive, main, start, poolState, oneTokenAtATime,
                   sellExecutionCount, lastRec>>

\* stop(name) called from anywhere in the process.
Stop ==
    /\ alive
    /\ \E name \in {"accountStream", "walletStream"}, endThrows \in BOOLEAN :
         LET r == StopResult(name, endThrows) IN
         /\ accountStream' = r.accountStream
         /\ streams' = r.streams
         /\ stopRaised' = (stopRaised \/ r.raised)
         /\ lastStop' = [tick |-> ~lastStop.tick, name |-> name, before |-> accountStream.ref,
                          attempting |-> Attempting]
    /\ UNCHANGED <<env, exitCode, swapCall, alive, main, start, poolState, oneTokenAtATime,
                   sellExecutionCount, flow, lastRec>>

\* The lowest unused handler invocation.
FreeFlow == CHOOSE f \in Flows : flow[f].pc = "idle" /\ \A g \in Flows : g < f => flow[g].pc # "idle"

\* listeners.on('new_swap', ...) has run.
HandlerRegistered == main = "listening"

\* A record of `recs` arrives on an open stream that still has its 'data'
\* handler: handlePoolStreamData runs to its end (it has no await).  A throw
\* rejects the promise nobody holds: the unhandled rejection ends the process
\* or is only warned about, as the runtime is configured.  An emitted event is
\* delivered to the registered handler, which runs up to its first await.
StreamData(recs) ==
    /\ alive
    /\ \E s \in 1..Len(streams), r \in recs :
         LET out == handlePoolStreamData(StreamRecords[r]) IN
         /\ streams[s].requested
         /\ ~streams[s].ended
         /\ ~streams[s].errored
         /\ streams[s].listeners
         /\ lastRec' = [rec |-> r, result |-> out.result, surfaced |-> out.surfaced,
                         delivered |-> (out.result = "emitted" /\ HandlerRegistered)]
         /\ IF out.result = "threw" THEN alive' \in BOOLEAN ELSE alive' = alive
         /\ IF out.result = "emitted" /\ HandlerRegistered
            THEN /\ \E f \in Flows : flow[f].pc = "idle"
                 /\ flow' = [flow EXCEPT ![FreeFlow] = [IdleFlow EXCEPT !.pc = "getTx"]]
            ELSE flow' = flow
    /\ UNCHANGED <<env, exitCode, swapCall, main, start, accountStream, streams, poolState, oneTokenAtATime,
                   sellExecutionCount, lastStop, stopRaised>>

\* The 'error' handler of the stream (index.ts:381-384): it creates a promise
\* around a one second timer that nobody awaits and logs a line.  No field of
\* the subscriber is written and subscribe() is not called.
onStreamError(sub) == sub

\* The transport of an open stream fails: the stream emits 'error' and
\* delivers no record any more.  The handler being attached, the event is not
\* an uncaught exception.
StreamError ==
    /\ alive
    /\ \E s \in 1..Len(streams) :
         /\ ~streams[s].ended
         /\ ~streams[s].errored
         /\ streams[s].listeners
         /\ LET sub == onStreamError([accountStream |-> accountStream, start |-> start,
                                      streams |-> [streams EXCEPT ![s].errored = TRUE]]) IN
            /\ accountStream' = sub.accountStream
            /\ start' = sub.start
            /\ streams' = sub.streams
    /\ UNCHANGED <<env, exitCode, swapCall, alive, main, poolState, oneTokenAtATime, sellExecutionCount,
                   flow, lastRec, lastStop, stopRaised>>

\* ------------------------------------------------------ constants.ts

\* Mutant of retrieveEnvVariable: only an unset variable ends the process, an
\* empty one is returned.
retrieveEnvVariable_UnsetOnly(value) ==
    IF value = <<>> THEN [exit |-> TRUE, variable |-> ""]
    ELSE [exit |-> FALSE, variable |-> value[1]]

\* retrieveEnvVariable: `process.env[variableName] || ''`, then process.exit(1)
\* if that is falsy, else the value.
retrieveEnvVariable(value) ==
    LET variable == IF value = <<>> \/ value[1] = "" THEN "" ELSE value[1] IN
    IF variable = "" THEN [exit |-> TRUE, variable |-> ""]
    ELSE [exit |-> FALSE, variable |-> variable]

\* The module constants.ts is evaluated when index.ts imports it, before any
\* statement of index.ts: each export calls retrieveEnvVariable, and the first
\* call that finds nothing ends the process with code 1.
LoadConfig ==
    /\ alive
    /\ main = "load"
    /\ IF \E k \in 1..Len(RequiredVariables) :
             retrieveEnvVariable(env[RequiredVariables[k]]).exit
       THEN /\ main' = "exited"
            /\ alive' = FALSE
            /\ exitCode' = <<1>>
       ELSE /\ main' = "init"
            /\ alive' = alive
            /\ exitCode' = exitCode
    /\ UNCHANGED <<env, swapCall, start, accountStream, streams, poolState,
                   oneTokenAtATime, sellExecutionCount, flow, lastRec, lastStop,
                   stopRaised>>

\* ------------------------------------------------------ runListener

\* runListener up to `await listeners.start(...)`.
RunListener ==
    /\ alive
    /\ main = "init"
    /\ main' = "start"
    /\ StartCall
    /\ UNCHANGED <<env, exitCode, swapCall, alive, accountStream, streams, poolState, oneTokenAtATime,
                   sellExecutionCount, flow, lastRec, lastStop, stopRaised>>

\* start() settled: runListener goes on to fetch the pool keys, or its promise
\* rejects unhandled.
RunListenerStarted ==
    /\ alive
    /\ main = "start"
    /\ \/ /\ start = "resolved"
          /\ main' = "fetchPool"
          /\ alive' = alive
       \/ /\ start = "rejected"
          /\ main' = "failed"
          /\ alive' \in BOOLEAN
    /\ UNCHANGED <<env, exitCode, swapCall, start, accountStream, streams, poolState, oneTokenAtATime,
                   sellExecutionCount, flow, lastRec, lastStop, stopRaised>>

\* PoolKeys.fetchPoolKeyInfo settled: the new_swap handler is registered with
\* whatever it returned, or runListener's promise rejects unhandled.
RunListenerRegister ==
    /\ alive
    /\ main = "fetchPool"
    /\ \/ /\ poolState' \in {"keys", "undefined"}
          /\ main' = "listening"
          /\ alive' = alive
       \/ /\ main' = "failed"
          /\ alive' \in BOOLEAN
          /\ poolState' = poolState
    /\ UNCHANGED <<env, exitCode, swapCall, start, accountStream, streams, oneTokenAtATime,
                   sellExecutionCount, flow, lastRec, lastStop, stopRaised>>

\* ------------------------------------------------------- Bot.sell

\* Raw balances connection.getTokenAccountBalance can report for the wallet.
WalletBalances == {0, 250}

\* Mutant of IsZeroBalance: the test is for a null uiAmount, which the node does
\* not answer for an existing account.
IsZeroBalance_NullOnly(raw) == FALSE

\* tokenBal.value.uiAmount == 0: uiAmount is raw / 10^decimals, zero exactly
\* for a raw balance of zero.
IsZeroBalance(raw) == raw = 0

sellPercentages == <<AVG_SELL_AMOUNT, HIGH_SELL_AMOUNT, LOW_SELL_AMOUNT>>

\* Math.random() is one of 0/RandomGrid .. (RandomGrid - 1)/RandomGrid.
RandomGrid == 4

\* new TokenAmount(baseToken, amount, false).raw: the ui amount in raw units.
baseTokenAmountRaw(amount) == amount * Pow10(TokenDecimals)

\* chunkAmount = baseTokenAmount.raw.mul(chunkPercentage).div(new BN(100))
chunkAmount(amount, selectedSellPercentage) ==
    (baseTokenAmountRaw(amount) * selectedSellPercentage) \div 100

\* Mutant of LoopContinues: the loop bound off by one (i <= maxSellRetries).
LoopContinues_OffByOne(i) == i <= MAX_SELL_RETRIES

\* The loop condition of `for (let i = 0; i < maxSellRetries; i++)`.
LoopContinues(i) == i < MAX_SELL_RETRIES

\* Mutant of FinallyBlock: the decrement sits after the try statement, so the
\* early returns skip it.
FinallyBlock_SkippedOnReturn(count, exit) ==
    IF oneTokenAtATime /\ exit \notin {"zeroBalance", "noPool", "emptyAmount"}
    THEN count - 1
    ELSE count

\* The finally block: the gate counter after an exit by the path `exit`.
FinallyBlock(count, exit) == IF oneTokenAtATime THEN count - 1 ELSE count

\* Leaving the try block by the path `exit`.
Exited(fl, exit) == [fl EXCEPT !.pc = "done", !.exit = exit]

\* Mutant of LoopHead: the tier is drawn again at every iteration.
LoopHead_Reselects(fl) ==
    IF LoopContinues(fl.i)
    THEN LET tier == sellPercentages[(fl.attempts % Len(sellPercentages)) + 1] IN
         [fl EXCEPT !.pc = "fetchInfo", !.attempts = fl.attempts + 1,
                    !.selectedSellPercentage = tier,
                    !.amountIn = chunkAmount(fl.amount, tier)]
    ELSE Exited(fl, "exhausted")

\* The head of the loop: the next call of swap(), or the end of the loop.
LoopHead(fl) ==
    IF LoopContinues(fl.i)
    THEN [fl EXCEPT !.pc = "fetchInfo", !.attempts = fl.attempts + 1]
    ELSE Exited(fl, "exhausted")

\* Mutant of SwapLeft: the loop goes on while the call of swap() it made is
\* still outstanding (the call is not awaited).
SwapLeft_CallOutstanding(fl) == fl

\* swap() returned or threw: its locals (computedAmountOut, latestBlockhash)
\* and those of executeAndConfirm are gone.  minOutAttempt and blockhashAttempt
\* say in which attempt of the order the value swap() holds was obtained, 0 for
\* none; broadcasts and confirms count the sendRawTransaction and
\* confirmTransaction calls of the executeAndConfirm call in progress.
SwapLeft(fl) ==
    [fl EXCEPT !.minOutAttempt = 0, !.blockhashAttempt = 0,
               !.broadcasts = 0, !.sendOptions = <<>>, !.sentAmountIn = 0,
               !.confirms = 0, !.confirmKey = <<>>]

\* Mutant of NextIteration: the order is given up at its first failed attempt.
NextIteration_GiveUp(fl) == Exited([SwapLeft(fl) EXCEPT !.i = fl.i + 1], "exhausted")

\* An attempt ended unconfirmed or threw into the inner catch: i++.
NextIteration(fl) == LoopHead([SwapLeft(fl) EXCEPT !.i = fl.i + 1])

\* Mutant of AfterResult: the break is missing, a confirmed attempt is followed
\* by the next iteration.
AfterResult_NoBreak(fl) == NextIteration(fl)

\* After swap() returned a result (fl.confirmed): `if (result.confirmed) break;`.
AfterResult(fl) ==
    IF fl.confirmed THEN Exited(SwapLeft(fl), "confirmed") ELSE NextIteration(fl)

\* Mutant of selectSellPercentage: the index is drawn below length - 1.
selectSellPercentage_ShortByOne(r) ==
    sellPercentages[((r * (Len(sellPercentages) - 1)) \div RandomGrid) + 1]

\* sellPercentages[Math.floor(Math.random() * sellPercentages.length)], with
\* Math.random() = r / RandomGrid.
selectSellPercentage(r) ==
    sellPercentages[((r * Len(sellPercentages)) \div RandomGrid) + 1]

\* Bot.sell after the balance read returned the raw balance `raw`, with the
\* tier Math.random() selected (bot.ts:286-313).
AfterBalance(fl, raw, selectedSellPercentage) ==
    IF IsZeroBalance(raw) THEN Exited([fl EXCEPT !.balance = <<raw>>], "zeroBalance")
    ELSE LET fl2 == [fl EXCEPT !.balance = <<raw>>,
                               !.selectedSellPercentage = selectedSellPercentage,
                               !.amountIn = chunkAmount(fl.amount, selectedSellPercentage)] IN
         IF poolState # "keys" THEN Exited(fl2, "noPool")
         ELSE IF baseTokenAmountRaw(fl.amount) = 0 THEN Exited(fl2, "emptyAmount")
         ELSE LoopHead(fl2)

\* One step of handler invocation f that leaves it in fl2; a step that leaves
\* Bot.sell runs the finally block.
FlowStep(f, fl2) ==
    /\ flow' = [flow EXCEPT ![f] = fl2]
    /\ sellExecutionCount' =
         IF fl2.pc = "done" /\ flow[f].pc \notin {"getTx", "done"}
         THEN FinallyBlock(sellExecutionCount, fl2.exit)
         ELSE sellExecutionCount
    /\ UNCHANGED <<env, exitCode, swapCall, main, start, accountStream, streams, poolState, oneTokenAtATime,
                   lastRec, lastStop, stopRaised>>

\* connection.getParsedTransaction returned null (r = 0) or transaction r: the
\* handler classifies it and, for a qualifying BUY, enters Bot.sell up to
\* `await getAssociatedTokenAddress(...)`.
HandlerGotTx(f) ==
    /\ alive
    /\ flow[f].pc = "getTx"
    /\ \E r \in 0..Len(ParsedTxs) :
         IF r = 0 THEN FlowStep(f, Exited(flow[f], "txNotFound"))
         ELSE LET v == Classify(ParsedTxs[r]) IN
              IF v.verdict = "sell"
              THEN FlowStep(f, [flow[f] EXCEPT !.pc = "ata", !.tx = r, !.amount = v.amount])
              ELSE FlowStep(f, Exited([flow[f] EXCEPT !.tx = r], v.verdict))
    /\ alive' = alive

\* connection.getParsedTransaction rejected: the handler's promise rejects
\* unhandled.
HandlerTxThrew(f) ==
    /\ alive
    /\ flow[f].pc = "getTx"
    /\ FlowStep(f, Exited(flow[f], "rpcThrew"))
    /\ alive' \in BOOLEAN

\* getAssociatedTokenAddress resolved; getTokenAccountBalance is called.  The
\* handler's transaction is not read again from here on: only the amount was
\* passed to Bot.sell.
SellAta(f) ==
    /\ alive
    /\ flow[f].pc = "ata"
    /\ FlowStep(f, [flow[f] EXCEPT !.pc = "bal", !.tx = 0])
    /\ alive' = alive

\* getTokenAccountBalance resolved.
SellBalance(f) ==
    /\ alive
    /\ flow[f].pc = "bal"
    /\ \E raw \in WalletBalances, r \in 0..(RandomGrid - 1) :
         FlowStep(f, AfterBalance(flow[f], raw, selectSellPercentage(r)))
    /\ alive' = alive

\* Mutant of OuterCatch: the error is thrown on to the caller of Bot.sell.
OuterCatch_Rethrows(fl) == Exited(fl, "propagated")

\* catch (error) { logger.error(..., `Failed to sell token`) } around the body
\* of Bot.sell: the call returns normally.
OuterCatch(fl) == Exited(fl, "exception")

\* getTokenAccountBalance rejected: the outer catch, then the finally block.
SellBalanceThrew(f) ==
    /\ alive
    /\ flow[f].pc = "bal"
    /\ FlowStep(f, OuterCatch(flow[f]))
    /\ alive' = alive

\* ------------------------------------------------------- Bot.swap

\* Mutant of computeAmountOut: the minAmountOut of the order's first attempt is
\* kept and used by the later ones.
computeAmountOut_FirstOnly(fl) == [fl EXCEPT !.minOutAttempt = 1]

\* Liquidity.computeAmountOut on the poolInfo this call of swap() fetched.
computeAmountOut(fl) == [fl EXCEPT !.minOutAttempt = fl.attempts]

\* connection.getLatestBlockhash() of this call of swap().
getLatestBlockhash(fl) == [fl EXCEPT !.blockhashAttempt = fl.attempts]

\* DefaultTransactionExecutor.execute: one sendRawTransaction of the
\* serialized transaction with { skipPreflight: true, maxRetries: 0 }; the
\* transaction's swap instruction was made with the amountIn swap() was given.
execute(fl) ==
    [fl EXCEPT !.broadcasts = fl.broadcasts + 1,
               !.sentAmountIn = fl.amountIn,
               !.sendOptions = <<[skipPreflight |-> TRUE, maxRetries |-> 0]>>]

\* Mutant of confirm: the confirmation is keyed by no blockhash of the
\* transaction's.
confirm_NoBlockhash(fl, signature) ==
    [fl EXCEPT !.confirms = fl.confirms + 1,
               !.confirmKey = <<[signature |-> signature, blockhash |-> 0,
                                 lastValidBlockHeight |-> 0]>>]

\* DefaultTransactionExecutor.confirm: one confirmTransaction keyed by the
\* signature and by the blockhash and lastValidBlockHeight swap() passed on,
\* which are those of the getLatestBlockhash answer the message was compiled
\* with.
confirm(fl, signature) ==
    [fl EXCEPT !.confirms = fl.confirms + 1,
               !.confirmKey = <<[signature |-> signature,
                                 blockhash |-> fl.blockhashAttempt,
                                 lastValidBlockHeight |-> fl.blockhashAttempt]>>]

\* Liquidity.fetchInfo resolved: minAmountOut is computed and
\* getLatestBlockhash is called.
SwapFetchInfo(f) ==
    /\ alive
    /\ flow[f].pc = "fetchInfo"
    /\ FlowStep(f, [computeAmountOut(flow[f]) EXCEPT !.pc = "blockhash", !.caught = "none",
                                                     !.confirmation = <<>>, !.result = <<>>])
    /\ alive' = alive

\* getLatestBlockhash resolved: the transaction is assembled and signed and
\* executeAndConfirm broadcasts it (sendRawTransaction).
SwapBlockhash(f) ==
    /\ alive
    /\ flow[f].pc = "blockhash"
    /\ FlowStep(f, [execute(getLatestBlockhash(flow[f])) EXCEPT !.pc = "send"])
    /\ alive' = alive

\* sendRawTransaction resolved with the signature of the transaction signed in
\* this attempt: confirmTransaction is called.
SwapSend(f) ==
    /\ alive
    /\ flow[f].pc = "send"
    /\ FlowStep(f, [confirm(flow[f], flow[f].attempts) EXCEPT !.pc = "confirm"])
    /\ alive' = alive

\* Mutant of confirmReturn: the result says confirmed whatever the node
\* answered.
confirmReturn_AlwaysConfirmed(fl, err) ==
    [fl EXCEPT !.confirmation = <<[err |-> err]>>,
               !.result = <<[confirmed |-> TRUE, signature |-> fl.confirmKey[1].signature]>>,
               !.confirmed = TRUE]

\* DefaultTransactionExecutor.confirm once confirmTransaction resolved with
\* the response `confirmation` (err says that confirmation.value.err is set):
\* return { confirmed: !confirmation.value.err, signature }, which swap()
\* returns to Bot.sell as `result`.
confirmReturn(fl, err) ==
    [fl EXCEPT !.confirmation = <<[err |-> err]>>,
               !.result = <<[confirmed |-> ~err, signature |-> fl.confirmKey[1].signature]>>,
               !.confirmed = ~err]

\* confirmTransaction resolved: confirmed is !confirmation.value.err.
SwapConfirm(f) ==
    /\ alive
    /\ flow[f].pc = "confirm"
    /\ \E err \in BOOLEAN : FlowStep(f, AfterResult(confirmReturn(flow[f], err)))
    /\ alive' = alive

\* Mutant of InnerCatch: the error leaves the loop for the outer catch.
InnerCatch_Rethrows(fl) ==
    Exited([SwapLeft(fl) EXCEPT !.caught = fl.pc, !.confirmation = <<>>, !.result = <<>>],
           "exception")

\* catch (error) { logger.debug(...) } inside the loop: the error of the await
\* the attempt was at is logged (caught) and the loop goes on with i++.
InnerCatch(fl) ==
    NextIteration([fl EXCEPT !.caught = fl.pc, !.confirmation = <<>>, !.result = <<>>])

\* Any await of the attempt rejected, or (at fetchInfo) the quote computed
\* from the fetched pool information threw: the inner catch.
SwapThrew(f) ==
    /\ alive
    /\ flow[f].pc \in {"fetchInfo", "blockhash", "send", "confirm"}
    /\ FlowStep(f, InnerCatch(flow[f]))
    /\ alive' = alive

\* ------------------------------------------- Bot.swap: the transaction

\* An instruction of the message, by the name of the call that made it; the
\* swap instruction carries the two amounts it was made with.
Instr(name) == [name |-> name, amountIn |-> 0, minAmountOut |-> 0]

\* Mutant of computeBudgetInstructions: the two instructions are added with
\* every executor.
computeBudgetInstructions_Always(isJito) ==
    <<Instr("setComputeUnitPrice"), Instr("setComputeUnitLimit")>>

\* ...(this.isJito ? [] : [setComputeUnitPrice(...), setComputeUnitLimit(...)])
computeBudgetInstructions(isJito) ==
    IF isJito THEN <<>>
    ELSE <<Instr("setComputeUnitPrice"), Instr("setComputeUnitLimit")>>

\* ...(direction === 'buy' ? [createAssociatedTokenAccountIdempotentInstruction(...)] : [])
createAtaInstructions(direction) ==
    IF direction = "buy" THEN <<Instr("createAssociatedTokenAccountIdempotent")>> ELSE <<>>

\* innerTransaction.instructions of Liquidity.makeSwapFixedInInstruction.
innerTransactionInstructions(amountIn, minAmountOut) ==
    <<[name |-> "swapFixedIn", amountIn |-> amountIn, minAmountOut |-> minAmountOut]>>

\* ...(direction === 'sell' ? [] : [])
closeAccountInstructions(direction) == IF direction = "sell" THEN <<>> ELSE <<>>

\* The instructions of the TransactionMessage, in order (bot.ts:407-430).
instructions(isJito, direction, amountIn, minAmountOut) ==
    computeBudgetInstructions(isJito)
        \o createAtaInstructions(direction)
        \o innerTransactionInstructions(amountIn, minAmountOut)
        \o closeAccountInstructions(direction)

\* The calls of swap() looked at alone: the executor is the relay's or not
\* (Bot.isJito), the direction, an amount-in of one of the tiers, a
\* minAmountOut and a blockhash as the node may give them.
SwapCalls ==
    [state : {"called"}, isJito : BOOLEAN, direction : {"buy", "sell"},
     amountIn : {chunkAmount(100, sellPercentages[k]) : k \in 1..Len(sellPercentages)},
     minAmountOut : {0, 1, 2400}, blockhash : {"h1", "h2"},
     instructions : {<<>>}, recentBlockhash : {"none"}]

\* swap() from the blockhash it fetched to the message it compiles.
AssembleSwap ==
    /\ swapCall.state = "called"
    /\ swapCall' = [swapCall EXCEPT
          !.state = "built",
          !.instructions = instructions(swapCall.isJito, swapCall.direction,
                                        swapCall.amountIn, swapCall.minAmountOut),
          !.recentBlockhash = swapCall.blockhash]
    /\ UNCHANGED <<alive, main, start, accountStream, streams, poolState,
                   oneTokenAtATime, sellExecutionCount, flow, lastRec, lastStop,
                   stopRaised, env, exitCode>>

\* ------------------------------------------------------ specifications

FlowNext(f) ==
    \/ HandlerGotTx(f)
    \/ HandlerTxThrew(f)
    \/ SellAta(f)
    \/ SellBalance(f)
    \/ SellBalanceThrew(f)
    \/ SwapFetchInfo(f)
    \/ SwapBlockhash(f)
    \/ SwapSend(f)
    \/ SwapConfirm(f)
    \/ SwapThrew(f)

\* The records the program's stream delivers: a failed swap, a swap and a swap
\* whose mint extraction throws (SpecSubscriber delivers every kind of record).
ProgramRecords == {3, 6, 7}

\* The program: runListener subscribes once, registers the handler, and the
\* stream feeds it.
Next ==
    \/ LoadConfig
    \/ RunListener
    \/ StartSubscribed
    \/ StartSent
    \/ RunListenerStarted
    \/ RunListenerRegister
    \/ StreamData(ProgramRecords)
    \/ StreamError
    \/ \E f \in Flows : FlowNext(f)

Spec == Init /\ [][Next]_vars

\* Every awaited call settles (it returns or throws) and the event loop runs
\* every continuation that is ready: the steps of the program itself are
\* taken when they can be.  Nothing is assumed of the node: records and
\* transport failures arrive or do not.
Fairness ==
    /\ WF_vars(LoadConfig)
    /\ WF_vars(RunListener)
    /\ WF_vars(StartSubscribed)
    /\ WF_vars(StartSent)
    /\ WF_vars(RunListenerStarted)
    /\ WF_vars(RunListenerRegister)
    /\ \A f \in Flows : WF_vars(FlowNext(f))

SpecLive == Spec /\ Fairness

\* The subscriber alone, driven by a harness that calls start() and stop() in
\* any order while records of every kind arrive.
HarnessStart ==
    /\ alive
    /\ Len(streams) < MaxStarts
    /\ StartCall
    /\ UNCHANGED <<env, exitCode, swapCall, alive, main, accountStream, streams, poolState, oneTokenAtATime,
                   sellExecutionCount, flow, lastRec, lastStop, stopRaised>>

AllRecords == 1..Len(StreamRecords)

NextSubscriber ==
    \/ HarnessStart
    \/ StartSubscribed
    \/ StartSent
    \/ Stop
    \/ StreamData(AllRecords)
    \/ StreamError

\* The subscriber is constructed by a program whose configuration is complete.
InitSubscriber ==
    /\ Init
    /\ \A k \in 1..Len(RequiredVariables) : env[RequiredVariables[k]] = <<"value">>

SpecSubscriber == InitSubscriber /\ [][NextSubscriber]_vars

\* The program with a caller of listeners.stop(): stop() is called once,
\* after the handler was registered, while orders may be in flight.
StopCalled ==
    /\ main = "listening"
    /\ lastStop.name = "none"
    /\ Stop

NextStop == Next \/ StopCalled

SpecStop == Init /\ [][NextStop]_vars

\* Bot.swap's assembly of the transaction, applied to every call in SwapCalls.
InitSwap ==
    /\ InitState
    /\ \A k \in 1..Len(RequiredVariables) : env[RequiredVariables[k]] = <<"value">>
    /\ swapCall \in SwapCalls

NextSwap == AssembleSwap

SpecSwap == InitSwap /\ [][NextSwap]_vars

\* ---------------------------------------------------------- claims

\* Program positions inside the attempt loop of Bot.sell (an order ATTEMPTING).
AttemptPcs == {"fetchInfo", "blockhash", "send", "confirm"}

\* The ways Bot.sell is left.
SellExits == {"zeroBalance", "noPool", "emptyAmount", "confirmed", "exhausted", "exception"}

\* C1: every invocation of Bot.sell makes at most MAX_SELL_RETRIES swap
\* attempts; the loop counter never decreases and never skips, and attempt
\* number k is made with the counter at k - 1.
C1_AttemptsBoundedAndMonotonic ==
    [][\A f \in Flows :
         /\ flow'[f].attempts <= MAX_SELL_RETRIES
         /\ flow'[f].i \in {flow[f].i, flow[f].i + 1}
         /\ flow'[f].attempts \in {flow[f].attempts, flow[f].attempts + 1}
         /\ flow'[f].attempts = flow[f].attempts + 1 => flow'[f].attempts = flow'[f].i + 1
         /\ flow'[f].i = flow[f].i + 1 => flow[f].pc \in AttemptPcs]_vars

\* C1 witness: an order that used its whole budget.
C1_Witness ==
    \E f \in Flows :
        /\ flow[f].exit = "exhausted"
        /\ flow[f].attempts = MAX_SELL_RETRIES
        /\ flow[f].i = MAX_SELL_RETRIES

\* C2: once an attempt returned a confirmed result the order has left the loop
\* for good: it is done and no further attempt follows.
C2_ConfirmedStopsLoop ==
    \A f \in Flows :
        flow[f].confirmed => flow[f].pc = "done" /\ flow[f].exit = "confirmed"
                             /\ flow[f].attempts = flow[f].i + 1

\* C2 witness: unconfirmed on attempt 1, confirmed on attempt 2, budget left.
C2_Witness ==
    \E f \in Flows :
        /\ flow[f].confirmed
        /\ flow[f].attempts = 2
        /\ flow[f].attempts < MAX_SELL_RETRIES

\* C3: with oneTokenAtATime at most one invocation of Bot.sell is inside its
\* attempt loop.
C3_AtMostOneAttempting ==
    oneTokenAtATime => Cardinality({f \in Flows : flow[f].pc \in AttemptPcs}) <= 1

\* C4: with oneTokenAtATime the gate counter has been decremented exactly once
\* for every invocation that left Bot.sell, by whichever path, and not for
\* those still inside.
C4_GateDecrementedOncePerExit ==
    oneTokenAtATime =>
        sellExecutionCount =
            0 - Cardinality({f \in Flows : flow[f].pc = "done" /\ flow[f].exit \in SellExits})

\* C4 witness: one order left by the zero-balance return and one by
\* confirmation.
C4_Witness ==
    /\ oneTokenAtATime
    /\ \E f, g \in Flows :
        /\ flow[f].exit = "zeroBalance"
        /\ flow[g].exit = "confirmed"
        /\ sellExecutionCount = -2

\* C5: an order whose balance read returned zero is over at once: no attempt
\* was counted and no amount to send was built.
C5_ZeroBalanceEndsOrder ==
    \A f \in Flows :
        flow[f].balance = <<0>> =>
            /\ flow[f].pc = "done"
            /\ flow[f].exit = "zeroBalance"
            /\ flow[f].attempts = 0
            /\ flow[f].i = 0

\* C5 witness: a balance read of zero.
C5_Witness == \E f \in Flows : flow[f].balance = <<0>> /\ flow[f].pc = "done"

\* The transaction invocation f classified, while the handler still holds it.
HasTx(f) == flow[f].tx # 0
TxOf(f) == ParsedTxs[flow[f].tx]

\* The transaction has the four balance entries the deltas are taken from.
HasBalances(tx) ==
    /\ tx.pre.defined /\ tx.post.defined
    /\ find(tx.pre.list, wsolMint) # <<>> /\ find(tx.post.list, wsolMint) # <<>>
    /\ find(tx.pre.list, TOKEN_ACCOUNT) # <<>> /\ find(tx.post.list, TOKEN_ACCOUNT) # <<>>

\* The handler returned without calling Bot.sell.
NoSellStarted(f) ==
    /\ flow[f].pc = "done"
    /\ flow[f].exit \notin SellExits
    /\ flow[f].attempts = 0

\* C6: a swap whose quote delta in lamports is below the minimum trigger
\* starts no sell order, on the direct and on the aggregator path.
C6_BelowTriggerNoSell ==
    \A f \in Flows :
        (HasTx(f) /\ HasBalances(TxOf(f))
            /\ buySwapAmountLamports(TxOf(f)) < MINIMUM_BUY_TRIGGER * 1000000)
        => NoSellStarted(f)

\* C6 witness: a direct and a routed BUY of 0.01 SOL were both discarded by
\* the trigger test.
C6_Witness ==
    \E f, g \in Flows :
        /\ flow[f].tx = 2 /\ flow[f].exit = "belowMin"
        /\ flow[g].tx = 5 /\ flow[g].exit = "belowMin"
        /\ jupiterProgramId \notin TxOf(f).keys
        /\ jupiterProgramId \in TxOf(g).keys

\* C7: a swap signed by a blacklisted wallet starts no sell order, whatever
\* its size and direction.
C7_BlacklistedNoSell ==
    \A f \in Flows :
        (HasTx(f) /\ TxOf(f).buyer \in loadBlacklist(BlacklistFile)) => NoSellStarted(f)

\* C7 witness: qualifying direct and routed BUYs of a blacklisted wallet were
\* discarded.
C7_Witness ==
    \E f, g \in Flows :
        /\ flow[f].tx = 6 /\ flow[f].exit = "blacklisted"
        /\ flow[g].tx = 7 /\ flow[g].exit = "blacklisted"
        /\ Mallory \in blacklist

\* C8: for a record the ledger flagged as failed no instruction is surfaced,
\* no new_swap event is emitted and no handler is invoked.
C8_FailedTxDropped ==
    (lastRec.rec # 0 /\ StreamRecords[lastRec.rec].err) =>
        /\ lastRec.surfaced = 0
        /\ lastRec.result = "dropped"
        /\ ~lastRec.delivered

\* C8 witness: a failed swap arrived while the handler was registered.
C8_Witness ==
    /\ lastRec.rec = 3
    /\ StreamRecords[3].err
    /\ HandlerRegistered
    /\ alive

\* C9: a record on which decoding throws leaves the process running and the
\* stream's handler in place, so that later records are still handled.
C9_DecodeFailureContained ==
    lastRec.result = "threw" =>
        /\ alive
        /\ \E s \in 1..Len(streams) : ~streams[s].ended /\ streams[s].listeners

\* C10: stop() on a subscriber that is already stopped or was never started
\* changes nothing and does not throw.
C10_StopIdempotent ==
    [][(lastStop' # lastStop /\ lastStop'.before # "stream") =>
          /\ accountStream' = accountStream
          /\ streams' = streams
          /\ ~stopRaised'
          /\ UNCHANGED <<env, exitCode, swapCall, alive, main, start, poolState, oneTokenAtATime,
                         sellExecutionCount, flow, lastRec>>]_vars

\* C10 witness: stop('accountStream') was called on a subscriber that an
\* earlier stop had already stopped.
C10_Witness ==
    /\ lastStop.name = "accountStream"
    /\ lastStop.before = "null"
    /\ accountStream = StreamNull
    /\ Len(streams) > 0

\* A stream on which records can arrive and are handled.
Subscribed(s) ==
    /\ streams[s].requested
    /\ streams[s].listeners
    /\ ~streams[s].ended
    /\ ~streams[s].errored

TransportFailed == \E s \in 1..Len(streams) : streams[s].errored

\* C11: after a stream's transport failed the subscriber subscribes again:
\* from then on there is, sooner or later, a stream on which records arrive
\* and are handled, unless the process was terminated meanwhile.
C11_ResubscribesAfterError ==
    (TransportFailed /\ alive) ~> ((\E s \in 1..Len(streams) : Subscribed(s)) \/ ~alive)

\* C12: when an attempt of an order ends without a confirmed result (the
\* result is unconfirmed, or the submission or the confirmation threw) and
\* attempts are left, the next attempt is made in the same step; an order is
\* abandoned only with its whole budget used.
C12_RetryWhileBudgetLeft ==
    [][\A f \in Flows :
         (flow[f].pc \in AttemptPcs /\ flow'[f].i = flow[f].i + 1) =>
            /\ flow[f].attempts < MAX_SELL_RETRIES =>
                  /\ flow'[f].pc = "fetchInfo"
                  /\ flow'[f].attempts = flow[f].attempts + 1
            /\ flow'[f].exit = "exhausted" => flow[f].attempts = MAX_SELL_RETRIES]_vars

\* C12 witness: the last attempt of the budget is under way after every
\* earlier one ended unconfirmed.
C12_Witness ==
    \E f \in Flows :
        /\ flow[f].pc = "confirm"
        /\ flow[f].attempts = MAX_SELL_RETRIES
        /\ flow[f].i = MAX_SELL_RETRIES - 1
        /\ ~flow[f].confirmed

\* Invocation f is inside Bot.sell.
InSell(f) == flow[f].pc \in {"ata", "bal"} \cup AttemptPcs

\* C13: every order reaches a terminal state: an invocation inside Bot.sell
\* can always take its next step (every awaited call settling, it then comes
\* to its end within the attempt budget); an order whose attempts all failed
\* has ended abandoned with exactly its budget used and nothing confirmed.
C13_OrderTerminates ==
    \A f \in Flows :
        /\ InSell(f) => ENABLED FlowNext(f)
        /\ flow[f].exit = "exhausted" =>
              /\ flow[f].pc = "done"
              /\ flow[f].attempts = MAX_SELL_RETRIES
              /\ flow[f].i = MAX_SELL_RETRIES
              /\ ~flow[f].confirmed

\* C14: the transaction an attempt submits is built from values of that
\* attempt: the minAmountOut was computed, and the blockhash fetched, in the
\* same call of swap(), and a call of swap() starts with neither.
C14_FreshTransactionPerAttempt ==
    \A f \in Flows :
        /\ flow[f].pc = "fetchInfo" =>
              flow[f].minOutAttempt = 0 /\ flow[f].blockhashAttempt = 0
        /\ flow[f].pc \in {"blockhash", "send", "confirm"} =>
              flow[f].minOutAttempt = flow[f].attempts
        /\ flow[f].pc \in {"send", "confirm"} =>
              flow[f].blockhashAttempt = flow[f].attempts

\* C14 witness: the second attempt of an order is being submitted.
C14_Witness ==
    \E f \in Flows :
        /\ flow[f].pc = "send"
        /\ flow[f].attempts = 2
        /\ flow[f].minOutAttempt = 2
        /\ flow[f].blockhashAttempt = 2

\* C15: the wallet's balance is read once for every attempt of an order,
\* before it: while attempt k is under way, getTokenAccountBalance has
\* answered k times for the order (flow[f].balance holds the answers).
C15_BalanceReadPerAttempt ==
    \A f \in Flows :
        flow[f].pc \in AttemptPcs => Len(flow[f].balance) = flow[f].attempts

\* C16: the raw amount-in of an order under attempt is floor(B * t / 100) for
\* the raw balance B the wallet was read to hold and one of the tiers t.
C16_AmountInFromBalance ==
    \A f \in Flows :
        flow[f].pc \in AttemptPcs =>
            \E k \in 1..Len(sellPercentages) :
                flow[f].amountIn = (flow[f].balance[1] * sellPercentages[k]) \div 100

\* A qualifying direct BUY: no aggregator among the account keys, the signer
\* not blacklisted, the four balance entries present, the token balance lower
\* after than before and the quote delta above the minimum trigger.
QualifyingDirectBuy(tx) ==
    /\ jupiterProgramId \notin tx.keys
    /\ tx.buyer \notin loadBlacklist(BlacklistFile)
    /\ HasBalances(tx)
    /\ postTokenAAmount(tx) < preTokenAAmount(tx)
    /\ buySwapAmountLamports(tx) > MINIMUM_BUY_TRIGGER * 1000000

SellStartedFor(f) == HasTx(f) /\ flow[f].pc = "ata"

QuoteDelta(tx) ==
    parseFloat(find(tx.post.list, wsolMint)[1].amount)
        - parseFloat(find(tx.pre.list, wsolMint)[1].amount)

\* C18: on the direct path a sell order is started only for a transaction in
\* which the token balance fell and the WSOL balance rose.
C18_DirectSellOnlyOnBuy ==
    \A f \in Flows :
        (SellStartedFor(f) /\ jupiterProgramId \notin TxOf(f).keys) =>
            /\ postTokenAAmount(TxOf(f)) < preTokenAAmount(TxOf(f))
            /\ QuoteDelta(TxOf(f)) > 0

\* C18 witness: a sell order started for the direct BUY, while a direct swap
\* with both balances falling and one with both rising were discarded.
C18_Witness ==
    \E f \in Flows :
        /\ SellStartedFor(f) /\ flow[f].tx = 1
        /\ Classify(ParsedTxs[12]).verdict = "belowMin"
        /\ Classify(ParsedTxs[13]).verdict = "notBuy"
        /\ \E g \in Flows : flow[g].tx \in {12, 13} /\ NoSellStarted(g)

\* C19: with the aggregator among the account keys a sell order is started
\* only for a transaction in which the token balance rose, and never for one
\* in which it fell.
C19_AggregatorDirectionInverted ==
    \A f \in Flows :
        (HasTx(f) /\ jupiterProgramId \in TxOf(f).keys) =>
            /\ flow[f].pc = "ata" =>
                  postTokenAAmount(TxOf(f)) > preTokenAAmount(TxOf(f))
            /\ (HasBalances(TxOf(f))
                   /\ postTokenAAmount(TxOf(f)) < preTokenAAmount(TxOf(f)))
                => NoSellStarted(f)

\* C19 witness: a sell order started for the routed BUY (token balance null
\* to 100) and the routed swap in which the token balance fell was discarded.
C19_Witness ==
    \E f, g \in Flows :
        /\ flow[f].tx = 4 /\ flow[f].pc = "ata"
        /\ flow[g].tx = 11 /\ flow[g].exit = "notBuy"
        /\ jupiterProgramId \in TxOf(f).keys
        /\ jupiterProgramId \in TxOf(g).keys

\* The streams that are open with their 'data' handler attached.
ActiveStreams ==
    {s \in 1..Len(streams) :
        ~streams[s].ended /\ ~streams[s].errored /\ streams[s].listeners}

\* C20: whatever start() and stop() calls were made on the subscriber, at most
\* one stream is open with a data handler attached.
C20_AtMostOneActiveStream == Cardinality(ActiveStreams) <= 1

\* C21: once stop('accountStream') has completed on a started subscriber (the
\* field holds null and no start() has been made since), no stream is left on
\* which an arriving record is handled, so no new_swap event is emitted.
C21_StoppedEmitsNothing ==
    (accountStream = StreamNull /\ start # "subscribing") =>
        \A s \in 1..Len(streams) : ~Subscribed(s)

\* A required variable is unset or empty.
ConfigIncomplete ==
    \E k \in 1..Len(RequiredVariables) : env[RequiredVariables[k]] \in {<<>>, <<"">>}

\* C26: with a required variable unset or empty the program never gets past
\* the loading of its configuration: no subscription is opened or asked for,
\* no handler is registered, and when it has left the loading it has exited
\* with code 1.
C26_IncompleteConfigExits ==
    ConfigIncomplete =>
        /\ main \in {"load", "exited"}
        /\ main = "exited" => exitCode = <<1>> /\ ~alive
        /\ streams = <<>> /\ start = "idle" /\ accountStream = StreamUndefined
        /\ ~HandlerRegistered
        /\ \A f \in Flows : flow[f].pc = "idle"

\* C26 witness: the process exited on a configuration whose only flaw is an
\* empty (not an unset) variable, the last one read.
C26_Witness ==
    /\ main = "exited"
    /\ exitCode = <<1>>
    /\ env["LOW_SELL_AMOUNT"] = <<"">>
    /\ env["PRIVATE_KEY"] = <<"value">>
    /\ env["GRPC_ENDPOINT"] = <<"value">>

\* The names of the instructions of the assembled message, in order.
RECURSIVE Names(_)
Names(ixs) == IF ixs = <<>> THEN <<>> ELSE <<Head(ixs).name>> \o Names(Tail(ixs))

ComputeBudgetNames == {"setComputeUnitPrice", "setComputeUnitLimit"}

\* C22: the assembled message starts with the compute-unit price and limit
\* instructions, and has no other of them, when the executor is not the
\* relay's; with the relay's executor it has none at all.
C22_ComputeBudgetUnlessRelay ==
    swapCall.state = "built" =>
        LET names == Names(swapCall.instructions) IN
        IF swapCall.isJito
        THEN \A k \in 1..Len(names) : names[k] \notin ComputeBudgetNames
        ELSE /\ Len(names) >= 3
             /\ names[1] = "setComputeUnitPrice"
             /\ names[2] = "setComputeUnitLimit"
             /\ \A k \in 3..Len(names) : names[k] \notin ComputeBudgetNames

\* C22 witness: a sell assembled for the relay's executor is the swap
\* instruction alone.
C22_Witness ==
    /\ swapCall.state = "built"
    /\ swapCall.isJito
    /\ swapCall.direction = "sell"
    /\ Names(swapCall.instructions) = <<"swapFixedIn">>

\* C23: a sell-direction message ends with an account closure instruction
\* that follows the swap instruction; a buy-direction message has none.
C23_SellClosesSourceAccount ==
    swapCall.state = "built" =>
        LET names == Names(swapCall.instructions) IN
        IF swapCall.direction = "sell"
        THEN /\ Len(names) >= 2
             /\ names[Len(names)] = "closeAccount"
             /\ names[Len(names) - 1] = "swapFixedIn"
        ELSE \A k \in 1..Len(names) : names[k] # "closeAccount"

\* C24: while executeAndConfirm waits for the broadcast, the transaction was
\* sent once, without preflight and with no library retries, and nothing was
\* confirmed; while it waits for the confirmation, there was still one
\* broadcast and there is one confirmation, keyed by the signature the
\* broadcast returned and by the blockhash and expiry height of the attempt's
\* own getLatestBlockhash answer; outside the call nothing is sent or confirmed.
C24_BroadcastOnceConfirmOnce ==
    \A f \in Flows :
        LET fl == flow[f] IN
        /\ fl.pc = "send" =>
              /\ fl.broadcasts = 1
              /\ fl.sendOptions = <<[skipPreflight |-> TRUE, maxRetries |-> 0]>>
              /\ fl.confirms = 0
              /\ fl.confirmKey = <<>>
        /\ fl.pc = "confirm" =>
              /\ fl.broadcasts = 1
              /\ fl.sendOptions = <<[skipPreflight |-> TRUE, maxRetries |-> 0]>>
              /\ fl.confirms = 1
              /\ fl.blockhashAttempt = fl.attempts
              /\ fl.confirmKey = <<[signature |-> fl.attempts,
                                    blockhash |-> fl.attempts,
                                    lastValidBlockHeight |-> fl.attempts]>>
        /\ fl.pc \notin {"send", "confirm"} => fl.broadcasts = 0 /\ fl.confirms = 0

\* C24 witness: the second attempt of an order waits for its confirmation
\* while another order still waits for its first broadcast.
C24_Witness ==
    /\ flow[1].pc = "confirm"
    /\ flow[1].attempts = 2
    /\ flow[1].confirms = 1
    /\ flow[2].pc = "send"
    /\ flow[2].attempts = 1

\* C28: the tier an order was sized with is AVG_SELL_AMOUNT, HIGH_SELL_AMOUNT
\* or LOW_SELL_AMOUNT and its amount-in is that percentage of the order's
\* amount; and whenever an order waits for its balance, each of the three
\* tiers is one the next step can select.
C28_TierIsConfiguredAndSelectable ==
    \A f \in Flows :
        LET fl == flow[f]
            tiers == {AVG_SELL_AMOUNT, HIGH_SELL_AMOUNT, LOW_SELL_AMOUNT} IN
        /\ fl.amountIn # 0 =>
              /\ fl.selectedSellPercentage \in tiers
              /\ fl.amountIn = chunkAmount(fl.amount, fl.selectedSellPercentage)
        /\ (alive /\ fl.pc = "bal") =>
              \A t \in tiers :
                  ENABLED (SellBalance(f) /\ flow'[f].selectedSellPercentage = t)

\* C28 witness: two orders sized with different tiers, one of them the last
\* of the list.
C28_Witness ==
    /\ flow[1].selectedSellPercentage = LOW_SELL_AMOUNT
    /\ flow[1].amountIn = chunkAmount(100, LOW_SELL_AMOUNT)
    /\ flow[2].selectedSellPercentage = HIGH_SELL_AMOUNT
    /\ flow[2].amountIn = chunkAmount(100, HIGH_SELL_AMOUNT)

\* C27: a step in which the pool fetch or the quote of an attempt fails
\* raises the loop index by exactly one and does not end the order by the
\* error; if the index is still below MAX_SELL_RETRIES the order is in its
\* next attempt, waiting for that attempt's pool fetch, and otherwise it ends
\* with its attempts used up.
C27_FetchFailureIsRetried ==
    [][\A f \in Flows :
          (flow[f].pc = "fetchInfo" /\ flow'[f] # flow[f] /\ flow'[f].pc # "blockhash") =>
              /\ flow'[f].caught = "fetchInfo"
              /\ flow'[f].i = flow[f].i + 1
              /\ flow'[f].exit # "exception"
              /\ IF flow'[f].i < MAX_SELL_RETRIES
                 THEN /\ flow'[f].pc = "fetchInfo"
                      /\ flow'[f].attempts = flow[f].attempts + 1
                      /\ flow'[f].exit = "none"
                 ELSE /\ flow'[f].pc = "done"
                      /\ flow'[f].exit = "exhausted"
                      /\ flow'[f].attempts = MAX_SELL_RETRIES]_vars

\* C27 witness: an order in its second attempt after the first one failed at
\* the pool fetch, and an order that ended when its last attempt failed there.
C27_Witness ==
    /\ flow[1].pc = "fetchInfo"
    /\ flow[1].attempts = 2
    /\ flow[1].caught = "fetchInfo"
    /\ flow[2].pc = "done"
    /\ flow[2].exit = "exhausted"
    /\ flow[2].caught = "fetchInfo"

\* C29: when the handler's transaction has no pre or no post balance list, or
\* lacks the pre or the post entry of the quote asset or of the tracked asset,
\* the handler returns in that step without calling Bot.sell, as a skip for
\* missing information, and the process and its streams are as before.
C29_MissingEntryNoSell ==
    [][\A f \in Flows :
          (flow[f].pc = "getTx" /\ flow'[f].tx # 0
             /\ ~HasBalances(ParsedTxs[flow'[f].tx])
             /\ ~IsBlacklisted(ParsedTxs[flow'[f].tx])) =>
              /\ flow'[f].pc = "done"
              /\ flow'[f].exit \in {"missingInfo", "noMatch"}
              /\ flow'[f].attempts = 0
              /\ flow'[f].amount = 0
              /\ sellExecutionCount' = sellExecutionCount
              /\ alive' = alive
              /\ streams' = streams
              /\ accountStream' = accountStream]_vars

\* C29 witness: one handler returned on a transaction without pre balance
\* list, another on one without post entry of the tracked asset, and the
\* process runs with its stream subscribed.
C29_Witness ==
    /\ alive
    /\ flow[1].pc = "done" /\ flow[1].tx = 8 /\ flow[1].exit = "missingInfo"
    /\ flow[2].pc = "done" /\ flow[2].tx = 9 /\ flow[2].exit = "noMatch"
    /\ \E s \in DOMAIN streams : Subscribed(s)

\* The instructions of record r that are addressed to the exchange program
\* and carry the discriminator of a swap variant.
SwapIxsOf(r) ==
    {k \in 1..Len(StreamRecords[r].ixs) :
        /\ IsRaydiumIx(StreamRecords[r].ixs[k])
        /\ StreamRecords[r].ixs[k].discriminator \in {"swapIn", "swapOut"}}

\* C30: a record for which new_swap was emitted has an instruction of the
\* exchange program that is a swapIn or a swapOut; a record with a rebuilt
\* transaction and no such instruction gives no event and no throw.
C30_EventOnlyForSwapVariant ==
    lastRec.rec # 0 =>
        /\ lastRec.result = "emitted" => SwapIxsOf(lastRec.rec) # {}
        /\ (/\ StreamRecords[lastRec.rec].transaction
            /\ StreamRecords[lastRec.rec].wellFormed
            /\ SwapIxsOf(lastRec.rec) = {}) =>
               lastRec.result \in {"dropped", "noSwap"}

\* C30 witness: the record with a deposit and an instruction of no known
\* variant was handled, its two instructions decoded, and nothing emitted.
C30_Witness ==
    /\ lastRec.rec = 5
    /\ lastRec.surfaced = 2
    /\ lastRec.result = "noSwap"
    /\ alive

\* C39: a swap whose quote delta equals the minimum trigger in lamports starts
\* no sell order, on the direct and on the aggregator path, and the
\* transaction of every order that was started has a quote delta above it.
C39_TriggerComparisonStrict ==
    \A f \in Flows :
        /\ (HasTx(f) /\ HasBalances(TxOf(f))
               /\ buySwapAmountLamports(TxOf(f)) = minimumBuyTriggerLamports)
           => NoSellStarted(f)
        /\ (HasTx(f) /\ flow[f].pc = "ata")
           => buySwapAmountLamports(TxOf(f)) > minimumBuyTriggerLamports

\* C39 witness: a direct and a routed BUY of exactly the trigger were both
\* discarded by the trigger test.
C39_Witness ==
    /\ flow[1].tx = 3 /\ flow[1].exit = "belowMin"
    /\ flow[2].tx = 14 /\ flow[2].exit = "belowMin"
    /\ buySwapAmountLamports(ParsedTxs[3]) = minimumBuyTriggerLamports
    /\ buySwapAmountLamports(ParsedTxs[14]) = minimumBuyTriggerLamports
    /\ jupiterProgramId \in ParsedTxs[14].keys

\* C33: the gate counter is never negative, and it is zero whenever no
\* invocation is inside Bot.sell.
C33_GateCounterNonNegative ==
    /\ sellExecutionCount >= 0
    /\ (\A f \in Flows : ~InSell(f)) => sellExecutionCount = 0

\* C38: a step of an invocation that is inside Bot.sell, a failed balance
\* read or a failed await of an attempt included, leaves the process running,
\* and when it ends the invocation it does so by one of the returns of
\* Bot.sell.
C38_SellNeverThrows ==
    [][\A f \in Flows :
          (InSell(f) /\ flow'[f] # flow[f]) =>
              /\ alive' = alive
              /\ flow'[f].pc = "done" => flow'[f].exit \in SellExits]_vars

\* C38 witness: one invocation returned after its balance read failed, the
\* other after the last of its attempts threw at the confirmation, and the
\* process runs.
C38_Witness ==
    /\ alive
    /\ flow[1].pc = "done" /\ flow[1].exit = "exception" /\ flow[1].balance = <<>>
    /\ flow[2].pc = "done" /\ flow[2].exit = "exhausted" /\ flow[2].caught = "confirm"

\* C34: a new_swap event emitted once start() has resolved reaches the
\* classification handler.
C34_EmittedEventsDelivered ==
    (lastRec.result = "emitted" /\ start = "resolved") => lastRec.delivered

\* C31: a call of stop() leaves every order as it is, so that an order that
\* is attempting goes on from where it was, and an order inside the attempt
\* loop leaves it only confirmed or with its attempts used up, whether stop()
\* was called or not.
C31_StopDoesNotCancelOrders ==
    [][\A f \in Flows :
          /\ lastStop' # lastStop =>
                /\ flow'[f] = flow[f]
                /\ alive' = alive
                /\ sellExecutionCount' = sellExecutionCount
          /\ (flow[f].pc \in AttemptPcs /\ flow'[f].pc \notin AttemptPcs) =>
                /\ flow'[f].pc = "done"
                /\ \/ flow'[f].exit = "confirmed" /\ flow'[f].confirmed
                   \/ flow'[f].exit = "exhausted" /\ flow'[f].i = MAX_SELL_RETRIES]_vars

\* C31 witness: stop() ended the subscribed stream while both orders were
\* attempting; since then one was confirmed and the other is still inside
\* the attempt loop.
C31_Witness ==
    /\ lastStop.name = "accountStream"
    /\ lastStop.before = "stream"
    /\ lastStop.attempting = {1, 2}
    /\ accountStream = StreamNull
    /\ \A s \in 1..Len(streams) : streams[s].ended
    /\ flow[1].pc = "done" /\ flow[1].exit = "confirmed"
    /\ flow[2].pc \in AttemptPcs
    /\ alive

\* C32: when the confirmation of an attempt returns, the result given to
\* Bot.sell says confirmed exactly when the node's response carries no error,
\* and with or without error it carries the signature the broadcast of that
\* attempt returned; when the confirmation throws there is no result.
C32_ResultReflectsConfirmation ==
    [][\A f \in Flows :
          (flow[f].pc = "confirm" /\ flow'[f] # flow[f]) =>
              IF flow'[f].caught = "confirm"
              THEN flow'[f].result = <<>>
              ELSE /\ flow'[f].confirmation # <<>>
                   /\ flow'[f].result =
                        <<[confirmed |-> ~flow'[f].confirmation[1].err,
                           signature |-> flow[f].confirmKey[1].signature]>>
                   /\ flow[f].confirmKey[1].signature = flow[f].attempts]_vars

\* C32 witness: one order got a confirmed result for its second attempt, the
\* other an unconfirmed result for its first one, each with the signature of
\* its attempt.
C32_Witness ==
    /\ flow[1].exit = "confirmed"
    /\ flow[1].confirmation = <<[err |-> FALSE]>>
    /\ flow[1].result = <<[confirmed |-> TRUE, signature |-> 2]>>
    /\ flow[2].pc = "fetchInfo"
    /\ flow[2].confirmation = <<[err |-> TRUE]>>
    /\ flow[2].result = <<[confirmed |-> FALSE, signature |-> 1]>>

\* C35: when an order was started from a transaction, the pre and the post
\* entry the handler took for the quote asset are of one token account, and
\* so are those it took for the tracked asset.
C35_DeltaWithinOneAccount ==
    \A f \in Flows :
        (HasTx(f) /\ flow[f].pc = "ata") =>
            /\ find(TxOf(f).pre.list, wsolMint)[1].accountIndex
                 = find(TxOf(f).post.list, wsolMint)[1].accountIndex
            /\ find(TxOf(f).pre.list, TOKEN_ACCOUNT)[1].accountIndex
                 = find(TxOf(f).post.list, TOKEN_ACCOUNT)[1].accountIndex

\* C36: a new attempt of an order starts in the step in which the balance
\* read returned (the first one), in which the confirmation of the attempt
\* before returned an unconfirmed result, or in which an await of the
\* attempt before threw; when it starts, no broadcast and no confirmation of
\* an earlier attempt is outstanding.
C36_AttemptsSequential ==
    [][\A f \in Flows :
          flow'[f].attempts = flow[f].attempts + 1 =>
              /\ \/ flow[f].pc = "bal" /\ flow[f].attempts = 0
                 \/ /\ flow[f].pc = "confirm"
                    /\ flow'[f].result # <<>>
                    /\ ~flow'[f].result[1].confirmed
                    /\ flow'[f].result[1].signature = flow[f].attempts
                 \/ flow[f].pc \in AttemptPcs /\ flow'[f].caught = flow[f].pc
              /\ flow'[f].pc = "fetchInfo"
              /\ flow'[f].broadcasts = 0
              /\ flow'[f].confirms = 0
              /\ flow'[f].confirmKey = <<>>
              /\ flow'[f].blockhashAttempt = 0]_vars

\* C36 witness: one order is in its second attempt after the first returned
\* unconfirmed, the other in its third after the second threw at the
\* broadcast; neither has a call outstanding.
C36_Witness ==
    /\ flow[1].pc = "fetchInfo" /\ flow[1].attempts = 2
    /\ flow[1].result = <<[confirmed |-> FALSE, signature |-> 1]>>
    /\ flow[1].broadcasts = 0 /\ flow[1].confirms = 0
    /\ flow[2].pc = "fetchInfo" /\ flow[2].attempts = 3
    /\ flow[2].caught = "send"
    /\ flow[2].broadcasts = 0 /\ flow[2].confirms = 0

\* C37: once the tier and the amount-in of an order are chosen they do not
\* change; an order that has made an attempt has them, the amount-in being
\* the tier's percentage of the order's amount; and the transaction every
\* attempt broadcasts is made with that amount-in.
C37_AmountInFixedPerOrder ==
    [][\A f \in Flows :
          /\ flow[f].amountIn # 0 =>
                /\ flow'[f].amountIn = flow[f].amountIn
                /\ flow'[f].selectedSellPercentage = flow[f].selectedSellPercentage
          /\ flow'[f].attempts >= 1 =>
                /\ flow'[f].amountIn # 0
                /\ flow'[f].amountIn
                     = chunkAmount(flow'[f].amount, flow'[f].selectedSellPercentage)
          /\ flow'[f].pc \in {"send", "confirm"} =>
                flow'[f].sentAmountIn = flow'[f].amountIn]_vars

\* C37 witness: an order sized with the last tier broadcasts its third
\* attempt with the amount-in of its first.
C37_Witness ==
    /\ flow[1].pc = "send"
    /\ flow[1].attempts = 3
    /\ flow[1].selectedSellPercentage = LOW_SELL_AMOUNT
    /\ flow[1].amountIn = chunkAmount(100, LOW_SELL_AMOUNT)
    /\ flow[1].sentAmountIn = chunkAmount(100, LOW_SELL_AMOUNT)

====
